---- MODULE Spec2Model ----
(***************************************************************************)
(* Pitch card game: the card model (card.py), the hand and its discard     *)
(* engine (hand.py), and the player's bidding and play strategies          *)
(* (player.py).                                                            *)
(*                                                                         *)
(* Strengths, aggressiveness and restraint are Python floats; they are     *)
(* modelled exactly, as integers counting thousandths (Scale).             *)
(***************************************************************************)
EXTENDS Integers, Sequences, FiniteSets, TLC

VARIABLES
    hand,          \* Player.hand.cards / Hand.cards: a sequence of cards
    pre,           \* the hand as it was when the last operation was called
    last,          \* the last operation and its arguments
    raised,        \* TRUE iff the last operation raised ValueError
    position,      \* Player.position
    strategies,    \* Player.strategies: aggressiveness, restraint, bid_strength
    bid_value,     \* Player.bid_value
    bidding_suit,  \* Player.bidding_suit
    played,        \* <<card>> returned by the last play strategy, else <<>>
    game_state,    \* the decision context handed to a play strategy
    deck           \* Deck.cards, with the hands dealt and the cards drawn so far

vars == <<hand, pre, last, raised, position, strategies, bid_value,
          bidding_suit, played, game_state, deck>>

\* Python's None, for a suit, a card or a bidding suit.
None == "None"

Min(a, b) == IF a < b THEN a ELSE b
Max(a, b) == IF a > b THEN a ELSE b

(***************************************************************************)
(* card.py                                                                 *)
(***************************************************************************)

\* Card.suit_to_symbol
suit_to_symbol ==
    [s \in {"Spades", "Diamonds", "Clubs", "Hearts", "Joker"} |->
        CASE s = "Spades" -> "s" [] s = "Diamonds" -> "d" [] s = "Clubs" -> "c"
          [] s = "Hearts" -> "h" [] s = "Joker" -> "J"]

\* The keys of Card.card_reference.
ReferenceKeys ==
    {"Ace", "A", "King", "K", "Queen", "Q", "Jack", "J", "X", "Big", "B",
     "Little", "L", "1", "10", "9", "8", "7", "6", "5", "4", "3", "2", "N", "_"}

\* Card.card_reference: rank and points of each key.
card_reference ==
    [k \in ReferenceKeys |->
        CASE k \in {"Ace", "A"}    -> [rank |-> 17, points |-> 1]
          [] k \in {"King", "K"}   -> [rank |-> 16, points |-> 0]
          [] k \in {"Queen", "Q"}  -> [rank |-> 15, points |-> 0]
          [] k \in {"Jack", "J"}   -> [rank |-> 14, points |-> 1]
          [] k = "X"               -> [rank |-> 13, points |-> 1]
          [] k \in {"Big", "B"}    -> [rank |-> 12, points |-> 1]
          [] k \in {"Little", "L"} -> [rank |-> 11, points |-> 1]
          [] k \in {"1", "10"}     -> [rank |-> 10, points |-> 1]
          [] k = "9"               -> [rank |-> 9, points |-> 0]
          [] k = "8"               -> [rank |-> 8, points |-> 0]
          [] k = "7"               -> [rank |-> 7, points |-> 0]
          [] k = "6"               -> [rank |-> 6, points |-> 0]
          [] k = "5"               -> [rank |-> 5, points |-> 0]
          [] k = "4"               -> [rank |-> 4, points |-> 0]
          [] k = "3"               -> [rank |-> 3, points |-> 3]
          [] k = "2"               -> [rank |-> 2, points |-> 1]
          [] k \in {"N", "_"}      -> [rank |-> 0, points |-> 0]]

\* The 'fullname' entries of Card.card_reference: card_reference[name].get('fullname', name).
fullname(name) ==
    CASE name = "A" -> "Ace" [] name = "K" -> "King" [] name = "Q" -> "Queen"
      [] name = "J" -> "Jack" [] name = "B" -> "Big" [] name = "L" -> "Little"
      [] name = "1" -> "10" [] OTHER -> name

\* name[:1], the first character of a key of card_reference.
FirstChar(name) ==
    CASE name \in {"Ace", "A"} -> "A" [] name \in {"King", "K"} -> "K"
      [] name \in {"Queen", "Q"} -> "Q" [] name \in {"Jack", "J"} -> "J"
      [] name \in {"Big", "B"} -> "B" [] name \in {"Little", "L"} -> "L"
      [] name \in {"1", "10"} -> "1" [] OTHER -> name

\* Card.base_symbol: "name in ('10')" is a substring test on the string '10'.
base_symbol(name) ==
    IF name \in {"", "1", "0", "10"} THEN name ELSE FirstChar(name)

\* A constructor that reads the points from card_reference as it reads the rank.
Card_TablePoints(name, suit) ==
    [name       |-> fullname(name),
     suit       |-> suit,
     short_name |-> <<base_symbol(fullname(name)), suit_to_symbol[suit]>>,
     symbol     |-> base_symbol(fullname(name)),
     rank       |-> card_reference[base_symbol(fullname(name))].rank,
     points     |-> card_reference[base_symbol(fullname(name))].points,
     trump_suit |-> None]

\* Card.__init__, for a valid name and suit.
Card(name, suit) ==
    [name       |-> fullname(name),
     suit       |-> suit,
     short_name |-> <<base_symbol(fullname(name)), suit_to_symbol[suit]>>,
     symbol     |-> base_symbol(fullname(name)),
     rank       |-> card_reference[base_symbol(fullname(name))].rank,
     points     |-> 0,
     trump_suit |-> None]

\* The pairs of suits of one colour, as written in is_trump and get_trump_symbol.
SameColour(a, b) ==
    <<a, b>> \in {<<"Spades", "Clubs">>, <<"Clubs", "Spades">>,
                  <<"Diamonds", "Hearts">>, <<"Hearts", "Diamonds">>}

\* is_trump by suit alone: neither the jokers nor the off-jack are trump.
is_trump_SuitOnly(card, suit) ==
    LET s == IF suit = None THEN card.trump_suit ELSE suit
    IN IF s = None THEN FALSE ELSE card.suit = s

\* Card.is_trump
is_trump(card, suit) ==
    LET s == IF suit = None THEN card.trump_suit ELSE suit
    IN IF s = None THEN FALSE
       ELSE IF card.suit \in {s, "Joker"} THEN TRUE
       ELSE IF card.symbol = "X" THEN TRUE
       ELSE IF base_symbol(card.name) = "J" THEN SameColour(card.suit, s)
       ELSE FALSE

\* get_trump_symbol without the off-jack: every trump Jack keeps the symbol J.
get_trump_symbol_NoOffJack(card, suit) ==
    IF is_trump(card, suit)
    THEN IF base_symbol(card.name) = "J" THEN base_symbol(card.name)
         ELSE card.symbol
    ELSE "N"

\* Card.get_trump_symbol
get_trump_symbol(card, suit) ==
    IF is_trump(card, suit)
    THEN IF base_symbol(card.name) = "J"
         THEN IF SameColour(card.suit, suit) THEN "X" ELSE base_symbol(card.name)
         ELSE card.symbol
    ELSE "N"

\* set_trump whose reset reads the points from card_reference instead of
\* assigning 0.
set_trump_BasePoints(card, suit) ==
    LET base == [card EXCEPT !.symbol = base_symbol(card.name),
                             !.rank = card_reference[base_symbol(card.name)].rank,
                             !.points = card_reference[base_symbol(card.name)].points,
                             !.trump_suit = None]
        sym == get_trump_symbol(base, suit)
    IN IF suit = None THEN base
       ELSE [base EXCEPT !.symbol = sym,
                         !.rank = card_reference[sym].rank,
                         !.points = card_reference[sym].points,
                         !.trump_suit = suit]

\* set_trump without the reset of lines 288-291: the suit is applied to the
\* attributes the previous call left.
set_trump_NoReset(card, suit) ==
    LET sym == get_trump_symbol(card, suit)
    IN IF suit = None THEN card
       ELSE [card EXCEPT !.symbol = sym,
                         !.rank = card_reference[sym].rank,
                         !.points = card_reference[sym].points,
                         !.trump_suit = suit]

\* Card.set_trump: reset to the base attributes, then apply the suit.
set_trump(card, suit) ==
    LET base == [card EXCEPT !.symbol = base_symbol(card.name),
                             !.rank = card_reference[base_symbol(card.name)].rank,
                             !.points = 0,
                             !.trump_suit = None]
        sym == get_trump_symbol(base, suit)
    IN IF suit = None THEN base
       ELSE [base EXCEPT !.symbol = sym,
                         !.rank = card_reference[sym].rank,
                         !.points = card_reference[sym].points,
                         !.trump_suit = suit]

\* Card.__lt__: by current rank.
__lt__(self, other) == self.rank < other.rank

\* Card.__gt__: by current rank.
__gt__(self, other) == self.rank > other.rank

\* Equality by current rank.
__eq__ByRank(self, other) == self.rank = other.rank

\* Card.__eq__: by short name.
__eq__(self, other) == self.short_name = other.short_name

(***************************************************************************)
(* hand.py                                                                 *)
(***************************************************************************)

\* The hand size the discard engine prunes and pads to (the literal 6).
HandLimit == 6

\* Python's seq[:k]: a negative k counts from the end.
Prefix(seq, k) ==
    IF k >= 0 THEN SubSeq(seq, 1, Min(k, Len(seq)))
    ELSE SubSeq(seq, 1, Max(Len(seq) + k, 0))

\* No card is discarded: the filter keeps the whole hand.
TrumpCards_All(cards, suit) == cards

\* [card for card in cards if card.is_trump(suit)]
TrumpCards(cards, suit) == SelectSeq(cards, LAMBDA c : is_trump(c, suit))

\* [card for card in cards if not card.is_trump(suit)]
NonTrumpCards(cards, suit) == SelectSeq(cards, LAMBDA c : ~is_trump(c, suit))

\* Hand.set_trump
Hand_set_trump(cards, suit) == [i \in DOMAIN cards |-> set_trump(cards[i], suit)]

\* list.sort(key=rank, reverse=True) inserts one element: it goes after every
\* element of rank >= its own (the sort is stable).
RECURSIVE InsertByRank(_, _)
InsertByRank(sorted, c) ==
    IF sorted = <<>> THEN <<c>>
    ELSE IF Head(sorted).rank >= c.rank
         THEN <<Head(sorted)>> \o InsertByRank(Tail(sorted), c)
         ELSE <<c>> \o sorted

\* Hand.sort_by_rank: stable, descending by rank.
RECURSIVE sort_by_rank(_)
sort_by_rank(cards) ==
    IF cards = <<>> THEN <<>>
    ELSE InsertByRank(sort_by_rank(SubSeq(cards, 1, Len(cards) - 1)),
                      cards[Len(cards)])

\* Hand.remove_cards, for a single card: "card not in [card_to_remove]" is
\* decided by Card.__eq__.
remove_cards(cards, card_to_remove) ==
    SelectSeq(cards, LAMBDA card : ~__eq__(card, card_to_remove))

\* add_cards without the membership test: every given card is appended.
add_cards_Append(cards, new_cards) == cards \o new_cards

\* Hand.add_cards, for a list: a card is appended unless the hand, as grown
\* so far, holds a card equal to it (Card.__eq__).
RECURSIVE add_cards(_, _)
add_cards(cards, new_cards) ==
    IF new_cards = <<>> THEN cards
    ELSE add_cards(IF \E i \in DOMAIN cards : __eq__(new_cards[1], cards[i])
                   THEN cards
                   ELSE Append(cards, new_cards[1]),
                   Tail(new_cards))

\* Overflow as a silent truncation to the limit: no hand is ever left too long.
Overflow_Truncate(cards) ==
    IF Len(cards) > HandLimit
    THEN LET point_cards == SelectSeq(cards, LAMBDA c : c.points > 0)
             non_point_cards ==
                 sort_by_rank(SelectSeq(cards, LAMBDA c : c.points = 0))
         IN Prefix(point_cards \o non_point_cards, HandLimit)
    ELSE cards

\* Overflow that forgets to sort the zero-point trumps before slicing them.
Overflow_Unsorted(cards) ==
    IF Len(cards) > HandLimit
    THEN LET point_cards == SelectSeq(cards, LAMBDA c : c.points > 0)
             non_point_cards == SelectSeq(cards, LAMBDA c : c.points = 0)
         IN point_cards \o Prefix(non_point_cards, HandLimit - Len(point_cards))
    ELSE cards

\* Hand.discard_non_trumps, lines 205-209: the overflow rule.
Overflow(cards) ==
    IF Len(cards) > HandLimit
    THEN LET point_cards == SelectSeq(cards, LAMBDA c : c.points > 0)
             non_point_cards ==
                 sort_by_rank(SelectSeq(cards, LAMBDA c : c.points = 0))
         IN point_cards \o Prefix(non_point_cards, HandLimit - Len(point_cards))
    ELSE cards

\* Padding that appends every saved card, without the slice to the limit.
Pad_All(cards, non_trump_cards, is_bidder) ==
    IF is_bidder /\ Len(cards) < HandLimit
    THEN cards \o non_trump_cards
    ELSE cards

\* Hand.discard_non_trumps, lines 211-213: the bidder's padding.
Pad(cards, non_trump_cards, is_bidder) ==
    IF is_bidder /\ Len(cards) < HandLimit
    THEN cards \o Prefix(non_trump_cards, HandLimit - Len(cards))
    ELSE cards

\* Hand.discard_non_trumps: the hand left behind, and whether it raised.
discard_non_trumps(cards, suit, is_bidder) ==
    LET marked == Hand_set_trump(cards, suit)
        non_trump_cards == IF is_bidder THEN NonTrumpCards(marked, suit) ELSE <<>>
        kept == Overflow(TrumpCards(marked, suit))
        final == sort_by_rank(Pad(kept, non_trump_cards, is_bidder))
    IN [cards |-> final, raised |-> Len(final) > HandLimit]

(***************************************************************************)
(* player.py: construction                                                 *)
(***************************************************************************)

\* Thousandths per unit: strengths, aggressiveness and restraint count
\* thousandths, one digit finer than round(.., 2) keeps.
Scale == 1000

\* default_bid_strength, in thousandths.
default_bid_strength ==
    [r \in 0..17 |->
        CASE r = 17 -> 2500 [] r = 16 -> 1500 [] r = 15 -> 1250 [] r = 14 -> 750
          [] r = 13 -> 750 [] r = 12 -> 500 [] r = 11 -> 500 [] r = 10 -> 500
          [] r = 9 -> 250 [] r = 8 -> 250 [] r = 7 -> 100 [] r = 6 -> 100
          [] r = 5 -> 100 [] r = 4 -> 100 [] r = 3 -> 1500 [] r = 2 -> 1000
          [] OTHER -> 0]

\* Player.__init__: the default strategies dictionary.
DefaultStrategies ==
    [aggressiveness |-> 0, restraint |-> 0, bid_strength |-> default_bid_strength]

\* The operation record before any operation has run.
NoOp ==
    [op |-> "init", suit |-> None, is_bidder |-> FALSE,
     current_bid |-> 0, current_bidder |-> 0]

\* No deck is in play: nothing to deal or draw from, nothing dealt or drawn.
NoDeck == [cards |-> <<>>, hands |-> <<>>, drawn |-> <<>>]

\* The decision context of a player who has not been asked to play.
NoGameState == [trumps |-> None, trumps_led |-> FALSE, trick |-> <<>>]

(***************************************************************************)
(* Hands the model deals.  A dealt hand is duplicate-free; its cards are   *)
(* freshly constructed.                                                    *)
(***************************************************************************)

\* The cards at the indices S of seq, in seq's order.
RECURSIVE Pick(_, _, _)
Pick(seq, S, i) ==
    IF i > Len(seq) THEN <<>>
    ELSE (IF i \in S THEN <<seq[i]>> ELSE <<>>) \o Pick(seq, S, i + 1)

Reverse(seq) == [i \in DOMAIN seq |-> seq[Len(seq) + 1 - i]]

\* Largest hand dealt (Deck.deal deals 9 cards to a hand).
MaxHand == 9

\* Number of cards of HandPool the hands are dealt from.
PoolSize == 12

\* The point-valued Spades trumps, zero-point Spades trumps and cards of the
\* other suits, interleaved.
HandPool ==
    << Card("Ace", "Spades"),   Card("King", "Hearts"),  Card("Jack", "Clubs"),
       Card("King", "Spades"),  Card("3", "Spades"),     Card("5", "Diamonds"),
       Card("Big", "Joker"),    Card("9", "Spades"),     Card("10", "Spades"),
       Card("Little", "Joker"), Card("4", "Spades"),     Card("Jack", "Spades"),
       Card("2", "Spades"),     Card("7", "Hearts"),     Card("Queen", "Spades"),
       Card("Jack", "Hearts") >>

DealtHands ==
    LET pool == SubSeq(HandPool, 1, Min(PoolSize, Len(HandPool)))
        picks == {S \in SUBSET (1..Len(pool)) : Cardinality(S) <= MaxHand}
    IN {Pick(pool, S, 1) : S \in picks} \cup {Reverse(Pick(pool, S, 1)) : S \in picks}

Suits == {"Spades", "Hearts", "Clubs", "Diamonds"}

(***************************************************************************)
(* The hand engine: a dealt hand, then discard_non_trumps.                 *)
(***************************************************************************)

Init ==
    /\ hand \in DealtHands
    /\ pre = <<>>
    /\ last = NoOp
    /\ raised = FALSE
    /\ position = 0
    /\ strategies = DefaultStrategies
    /\ bid_value = 0
    /\ bidding_suit = None
    /\ played = <<>>
    /\ game_state = NoGameState
    /\ deck = NoDeck

\* hand.discard_non_trumps(suit, is_bidder), called once on a dealt hand.
DiscardNonTrumps ==
    \E suit \in Suits, is_bidder \in BOOLEAN :
        LET r == discard_non_trumps(hand, suit, is_bidder)
        IN /\ last.op = "init"
           /\ hand' = r.cards
           /\ raised' = r.raised
           /\ pre' = hand
           /\ last' = [NoOp EXCEPT !.op = "discard_non_trumps", !.suit = suit,
                                   !.is_bidder = is_bidder]
           /\ UNCHANGED <<position, strategies, bid_value, bidding_suit,
                          played, game_state, deck>>

Next == DiscardNonTrumps

Spec == Init /\ [][Next]_vars

(***************************************************************************)
(* player.py: bidding                                                      *)
(***************************************************************************)

\* current_bidder=None (no bidder yet); seats are 0..3.
NoBidder == -1

Seats == 0..3

\* The highest bid of the game (docstring: "0 = pass, 5-7 = actual bid").
MaxBid == 7

\* The minimum bid ("if self.bid_value < 5").
MinBid == 5

\* "elif self.bid_value >= 7": no opening bid of 7.
OpeningCap == 7

\* The order in which default_bid_strategy tries the suits.
SuitOrder == <<"Spades", "Hearts", "Clubs", "Diamonds">>

\* Player.is_partner with the falsy test dropped.
is_partner_NoFalsyTest(pos, player_position) ==
    pos = (player_position + 2) % 4

\* Player.is_partner: None and seat 0 are falsy.
is_partner(pos, player_position) ==
    IF player_position = NoBidder \/ player_position = 0 THEN FALSE
    ELSE pos = (player_position + 2) % 4

\* sum(trump_ranks)
RECURSIVE SumStrength(_, _)
SumStrength(cards, bid_strength) ==
    IF cards = <<>> THEN 0
    ELSE bid_strength[Head(cards).rank] + SumStrength(Tail(cards), bid_strength)

\* round(x, 2): to the nearest hundredth (x counts thousandths).
round2(x) ==
    IF x >= 0 THEN ((x + 5) \div 10) * 10 ELSE -(((-x) + 5) \div 10) * 10

\* suit_bid of one suit: the hand's strength with that suit as trump.
suit_bid(cards, suit, bid_strength) ==
    round2(SumStrength(Hand_set_trump(cards, suit), bid_strength))

\* The loop over the suits (lines 320-333).  "not self.bid_value" is true
\* for None and also for a strength of 0.
RECURSIVE EvaluateSuits(_, _, _, _)
EvaluateSuits(cards, bid_strength, i, acc) ==
    IF i > Len(SuitOrder) THEN acc
    ELSE LET sb == suit_bid(cards, SuitOrder[i], bid_strength)
         IN EvaluateSuits(cards, bid_strength, i + 1,
               IF acc.is_none \/ acc.bid_value = 0 \/ sb > acc.bid_value
               THEN [is_none |-> FALSE, bid_value |-> sb, bidding_suit |-> SuitOrder[i]]
               ELSE acc)

\* The tentative trumps are left on the cards.
ResetTrump_Skipped(cards) == Hand_set_trump(cards, SuitOrder[Len(SuitOrder)])

\* The hand after the loop and line 336: self.hand.set_trump(None).
ResetTrump(cards) ==
    Hand_set_trump(Hand_set_trump(cards, SuitOrder[Len(SuitOrder)]), None)

\* Lines 339-344: add aggressiveness; for a partner subtract restraint, clamped at 0.
ApplyPersonality(best, aggressiveness, restraint, partner) ==
    IF partner THEN Max(0, best + aggressiveness - restraint)
    ELSE best + aggressiveness

\* int(x): truncation toward zero (x counts thousandths).
int(x) == IF x >= 0 THEN x \div Scale ELSE -((-x) \div Scale)

\* The bidding rule without the cap on an opening bid.
BidRule_NoOpeningCap(v, current_bid) ==
    LET w == IF v < MinBid THEN 0 ELSE v
    IN IF w <= current_bid THEN 0
       ELSE IF current_bid > 0 THEN current_bid + 1
       ELSE w

\* The bidding rule that passes instead of capping an opening bid.
BidRule_PassOnCap(v, current_bid) ==
    LET w == IF v < MinBid THEN 0 ELSE v
    IN IF w <= current_bid THEN 0
       ELSE IF current_bid > 0 THEN current_bid + 1
       ELSE IF w >= OpeningCap THEN 0
       ELSE w

\* Lines 351-363: the minimum bid, the pass, the overbid by one, the opening cap.
BidRule(v, current_bid) ==
    LET w == IF v < MinBid THEN 0 ELSE v
    IN IF w <= current_bid THEN 0
       ELSE IF w > current_bid /\ current_bid > 0 THEN current_bid + 1
       ELSE IF w >= OpeningCap THEN OpeningCap - 1
       ELSE w

\* Lines 320-333: the winning strength and suit of a hand.
BestSuit(cards, bid_strength) ==
    EvaluateSuits(cards, bid_strength, 1,
                  [is_none |-> TRUE, bid_value |-> 0, bidding_suit |-> None])

\* The value before truncation (the "Computed bid" of the debug output).
ComputedBid(best_value, pos, strat, current_bidder) ==
    ApplyPersonality(best_value, strat.aggressiveness, strat.restraint,
                     is_partner(pos, current_bidder))

\* Lines 339-365: from the winning strength to the returned bid.
FinalBid(best_value, pos, strat, current_bid, current_bidder) ==
    BidRule(int(ComputedBid(best_value, pos, strat, current_bidder)), current_bid)

\* Player.default_bid_strategy: the bid, the bidding suit and the hand it leaves.
default_bid_strategy(cards, pos, strat, current_bid, current_bidder) ==
    LET best == BestSuit(cards, strat.bid_strength)
    IN [bid_value    |-> FinalBid(best.bid_value, pos, strat, current_bid, current_bidder),
        bidding_suit |-> best.bidding_suit,
        cards        |-> ResetTrump(cards)]

(***************************************************************************)
(* player.py: play strategies.  Each takes the hand's cards and the        *)
(* game_state and returns one card; a hand is not empty when a card is     *)
(* asked of it.                                                            *)
(***************************************************************************)

\* min(cards, key=...): the first card whose key no other card's key is below;
\* key[i] is the key of cards[i].
MinFirst(cards, key) ==
    cards[CHOOSE i \in DOMAIN cards :
             /\ \A j \in DOMAIN cards : key[j] >= key[i]
             /\ \A j \in 1..(i - 1) : key[j] > key[i]]

\* key=lambda card: card.rank
ByRank(cards) == [i \in DOMAIN cards |-> cards[i].rank]

\* key=lambda card: card.points
ByPoints(cards) == [i \in DOMAIN cards |-> cards[i].points]

\* key=lambda card: (card.points, card.rank): the pairs in lexicographic
\* order, ranks being below 18.
ByPointsThenRank(cards) == [i \in DOMAIN cards |-> cards[i].points * 18 + cards[i].rank]

\* max(cards, key=lambda card: card.rank): the first card of the highest rank.
MaxRank(cards) == MinFirst(cards, [i \in DOMAIN cards |-> 0 - cards[i].rank])

\* min(cards, key=lambda card: card.rank)
MinRank(cards) == MinFirst(cards, ByRank(cards))

\* trump_cards: [card for card in hand if card.is_trump(suit=game_state.get('trumps'))]
HandTrumps(cards, gs) == SelectSeq(cards, LAMBDA c : is_trump(c, gs.trumps))

\* A trick is a sequence of seats: <<>> for a seat that has not played
\* (None), <<card>> for a played card.
\* max(played_ranks, default=0) over the cards that are not None.
highest_played_rank(gs) ==
    LET played_ranks == {gs.trick[i][1].rank :
                            i \in {k \in DOMAIN gs.trick : gs.trick[k] # <<>>}}
    IN IF played_ranks = {} THEN 0
       ELSE CHOOSE r \in played_ranks : \A q \in played_ranks : q <= r

\* Player.play_random: the cards random.choice may return.
play_random(cards, gs) ==
    LET trump_cards == HandTrumps(cards, gs)
    IN IF gs.trumps_led /\ trump_cards # <<>>
       THEN {trump_cards[i] : i \in DOMAIN trump_cards}
       ELSE {cards[i] : i \in DOMAIN cards}

\* The highest card on the table, the trick's cards included.
play_highest_OfTable(cards, gs) ==
    MaxRank(cards \o [i \in 1..Len(SelectSeq(gs.trick, LAMBDA e : e # <<>>)) |->
                         SelectSeq(gs.trick, LAMBDA e : e # <<>>)[i][1]])

\* Player.play_highest
play_highest(cards, gs) == MaxRank(cards)

\* Player.play_lowest
play_lowest(cards, gs) ==
    LET trump_cards == HandTrumps(cards, gs)
    IN IF gs.trumps_led /\ trump_cards # <<>> THEN MinRank(trump_cards)
       ELSE MinRank(cards)

\* Player.play_highest_no_point
play_highest_no_point(cards, gs) ==
    LET zero_point_cards == SelectSeq(HandTrumps(cards, gs), LAMBDA c : c.points = 0)
    IN IF zero_point_cards # <<>> THEN MaxRank(zero_point_cards)
       ELSE MaxRank(cards)

\* max(card.points for card in point_cards)
MaxPoints(cards) ==
    CHOOSE m \in {cards[i].points : i \in DOMAIN cards} :
        \A i \in DOMAIN cards : cards[i].points <= m

\* play_highest_points that keeps the Ace among the highest point cards.
play_highest_points_WithAce(cards, gs) ==
    LET point_cards == SelectSeq(cards, LAMBDA c : c.points > 0)
        highest_point_cards ==
            IF point_cards = <<>> THEN <<>>
            ELSE SelectSeq(point_cards,
                           LAMBDA c : c.points = MaxPoints(point_cards))
        catchable_cards == SelectSeq(highest_point_cards, LAMBDA c : c.rank # 2)
        trump_cards == HandTrumps(cards, gs)
    IN IF catchable_cards # <<>> THEN MinRank(catchable_cards)
       ELSE IF highest_point_cards # <<>> THEN MinRank(highest_point_cards)
       ELSE IF gs.trumps_led /\ trump_cards # <<>>
            THEN MinFirst(trump_cards, ByPointsThenRank(trump_cards))
       ELSE MinRank(cards)

\* Player.play_highest_points
play_highest_points(cards, gs) ==
    LET point_cards == SelectSeq(cards, LAMBDA c : c.points > 0)
        highest_point_cards ==
            IF point_cards = <<>> THEN <<>>
            ELSE SelectSeq(SelectSeq(point_cards,
                               LAMBDA c : c.points = MaxPoints(point_cards)),
                        LAMBDA c : c.rank # 17)
        catchable_cards == SelectSeq(highest_point_cards, LAMBDA c : c.rank # 2)
        trump_cards == HandTrumps(cards, gs)
    IN IF catchable_cards # <<>> THEN MinRank(catchable_cards)
       ELSE IF highest_point_cards # <<>> THEN MinRank(highest_point_cards)
       ELSE IF gs.trumps_led /\ trump_cards # <<>>
            THEN MinFirst(trump_cards, ByPointsThenRank(trump_cards))
       ELSE MinRank(cards)

\* Player.play_lowest_no_point
play_lowest_no_point(cards, gs) ==
    LET trump_cards == HandTrumps(cards, gs)
        two_of_trumps == SelectSeq(trump_cards, LAMBDA c : c.rank = 2)
        zero_point_trumps == SelectSeq(trump_cards, LAMBDA c : c.points = 0)
        single_point_cards == SelectSeq(trump_cards, LAMBDA c : c.points = 1)
    IN IF two_of_trumps # <<>> THEN two_of_trumps[1]
       ELSE IF zero_point_trumps # <<>> THEN MinRank(zero_point_trumps)
       ELSE IF trump_cards # <<>>
            THEN IF single_point_cards # <<>> THEN MinRank(single_point_cards)
                 ELSE MinFirst(trump_cards, ByPoints(trump_cards))
       ELSE MinRank(cards)

\* play_just_higher that lets the 2 and the 3 qualify.
play_just_higher_WithLowTrumps(cards, gs) ==
    LET just_higher_cards ==
            SelectSeq(cards, LAMBDA c : c.rank > highest_played_rank(gs))
    IN IF just_higher_cards # <<>> THEN MinRank(just_higher_cards)
       ELSE play_lowest_no_point(cards, gs)

\* Player.play_just_higher
play_just_higher(cards, gs) ==
    LET just_higher_cards ==
            SelectSeq(cards, LAMBDA c : c.rank > highest_played_rank(gs)
                                     /\ c.rank \notin {2, 3})
    IN IF just_higher_cards # <<>> THEN MinRank(just_higher_cards)
       ELSE play_lowest_no_point(cards, gs)

\* play_single_point without the trumps-led branch: with no point card and no
\* 2 it plays the lowest card of the hand.
play_single_point_NoTrumpsLed(cards, gs) ==
    LET single_point_cards ==
            SelectSeq(cards, LAMBDA c : c.points = 1 /\ c.rank \notin {2, 17})
        two_cards == SelectSeq(cards, LAMBDA c : c.rank = 2)
    IN IF single_point_cards # <<>> THEN MinRank(single_point_cards)
       ELSE IF two_cards # <<>> THEN two_cards[1]
       ELSE MinRank(cards)

\* Player.play_single_point
play_single_point(cards, gs) ==
    LET single_point_cards ==
            SelectSeq(cards, LAMBDA c : c.points = 1 /\ c.rank \notin {2, 17})
        two_cards == SelectSeq(cards, LAMBDA c : c.rank = 2)
        trump_cards == HandTrumps(cards, gs)
        no_point_cards == SelectSeq(trump_cards, LAMBDA c : c.points = 0)
    IN IF single_point_cards # <<>> THEN MinRank(single_point_cards)
       ELSE IF two_cards # <<>> THEN two_cards[1]
       ELSE IF gs.trumps_led /\ no_point_cards # <<>> THEN MinRank(no_point_cards)
       ELSE IF gs.trumps_led /\ trump_cards # <<>> THEN MinRank(trump_cards)
       ELSE MinRank(cards)

\* Player.play_off
play_off(cards, gs) ==
    LET non_trump_cards == SelectSeq(cards, LAMBDA c : c.rank < 2)
        two_cards == SelectSeq(cards, LAMBDA c : c.rank = 2)
        lowest_no_point_cards == SelectSeq(cards, LAMBDA c : c.points = 0)
        single_point_cards == SelectSeq(cards, LAMBDA c : c.points = 1)
    IN IF non_trump_cards # <<>> /\ ~gs.trumps_led THEN non_trump_cards[1]
       ELSE IF two_cards # <<>> THEN two_cards[1]
       ELSE IF lowest_no_point_cards # <<>> THEN MinRank(lowest_no_point_cards)
       ELSE IF single_point_cards # <<>> THEN MinRank(single_point_cards)
       ELSE MinRank(cards)

\* Player.play_save_point
play_save_point(cards, gs) ==
    LET single_point_cards ==
            SelectSeq(cards, LAMBDA c : c.points = 1 /\ c.rank \notin {2, 17}
                                     /\ c.rank > highest_played_rank(gs))
    IN IF single_point_cards # <<>> THEN MinRank(single_point_cards)
       ELSE play_off(cards, gs)

(***************************************************************************)
(* The bidder: a player with a personality and a dealt hand, then one bid. *)
(***************************************************************************)

\* Largest hand a bidding player is dealt in the model.
MaxBidHand == 5

\* Number of cards of BidPool the bidding hands are dealt from.
BidPoolSize == 5

BidPool ==
    << Card("Ace", "Spades"), Card("Ace", "Hearts"), Card("Jack", "Clubs"),
       Card("3", "Spades"),   Card("King", "Spades"), Card("Big", "Joker"),
       Card("2", "Diamonds"), Card("Queen", "Spades") >>

BidHands ==
    LET pool == SubSeq(BidPool, 1, Min(BidPoolSize, Len(BidPool)))
    IN {Pick(pool, S, 1) :
          S \in {T \in SUBSET (1..Len(pool)) : Cardinality(T) <= MaxBidHand}}

\* A strength table that gives the court cards no strength.
LowCardStrength ==
    [r \in 0..17 |-> IF r \in {3, 2} THEN 1500 ELSE IF r \in 4..13 THEN 250 ELSE 0]

StrengthTables == {default_bid_strength, LowCardStrength}

\* Personalities: aggressiveness and restraint, in thousandths.
Aggressiveness == {0, 2500}
Restraint == {0, 1500}

InitBid ==
    /\ hand \in BidHands
    /\ pre = <<>>
    /\ last = NoOp
    /\ raised = FALSE
    /\ position \in Seats
    /\ strategies \in [aggressiveness : Aggressiveness, restraint : Restraint,
                       bid_strength : StrengthTables]
    /\ bid_value = 0
    /\ bidding_suit = None
    /\ played = <<>>
    /\ game_state = NoGameState
    /\ deck = NoDeck

\* player.bid(current_bid, current_bidder) with the default bid strategy.
Bid ==
    LET best == BestSuit(hand, strategies.bid_strength)
        left == ResetTrump(hand)
    IN \E current_bid \in 0..MaxBid, current_bidder \in Seats \cup {NoBidder} :
           /\ last.op = "init"
           /\ bid_value' = FinalBid(best.bid_value, position, strategies,
                                    current_bid, current_bidder)
           /\ bidding_suit' = best.bidding_suit
           /\ hand' = left
           /\ pre' = hand
           /\ last' = [NoOp EXCEPT !.op = "bid", !.current_bid = current_bid,
                                   !.current_bidder = current_bidder]
           /\ UNCHANGED <<raised, position, strategies, played, game_state, deck>>

NextBid == Bid

BidSpec == InitBid /\ [][NextBid]_vars

(***************************************************************************)
(* The card player: a hand, possibly with a trump set on its cards, is     *)
(* asked for one card under a decision context.                            *)
(***************************************************************************)

\* Largest hand a card is asked of (a hand holds 6 cards after the discard).
MaxPlayHand == 6

\* Number of cards of PlayPool the playing hands are made of.
PlayPoolSize == 6

PlayPool ==
    << Card("Ace", "Spades"),  Card("3", "Spades"),  Card("5", "Hearts"),
       Card("King", "Spades"), Card("2", "Spades"),  Card("Jack", "Clubs"),
       Card("10", "Spades"),   Card("9", "Spades") >>

\* The trump the hand's cards carry when the card is asked for.
HandTrumpChoices == {None, "Spades"}

PlayHands ==
    LET pool == SubSeq(PlayPool, 1, Min(PlayPoolSize, Len(PlayPool)))
        picks == {T \in SUBSET (1..Len(pool)) :
                     Cardinality(T) >= 1 /\ Cardinality(T) <= MaxPlayHand}
    IN {Hand_set_trump(Pick(pool, S, 1), t) : S \in picks, t \in HandTrumpChoices}

\* Tricks: empty, one seat that has not played, one card, a gap and two cards.
Tricks(trumps) ==
    { <<>>,
      << <<>> >>,
      << <<set_trump(Card("6", "Spades"), trumps)>> >>,
      << <<>>, <<set_trump(Card("Queen", "Spades"), trumps)>>,
         <<set_trump(Card("7", "Diamonds"), trumps)>> >> }

GameStates ==
    UNION {[trumps : {t}, trumps_led : BOOLEAN, trick : Tricks(t)] :
              t \in Suits \cup {None}}

InitPlay ==
    /\ hand \in PlayHands
    /\ pre = <<>>
    /\ last = NoOp
    /\ raised = FALSE
    /\ position = 0
    /\ strategies = DefaultStrategies
    /\ bid_value = 0
    /\ bidding_suit = None
    /\ played = <<>>
    /\ game_state = NoGameState
    /\ deck = NoDeck

\* A strategy that takes the card it returns out of the hand, as the
\* dispatcher does afterwards.
Decide_Removing(op, card, gs) ==
    /\ last.op = "init"
    /\ played' = <<card>>
    /\ game_state' = gs
    /\ pre' = hand
    /\ last' = [NoOp EXCEPT !.op = op]
    /\ hand' = remove_cards(hand, card)
    /\ UNCHANGED <<raised, position, strategies, bid_value, bidding_suit, deck>>

\* A play strategy is called with game_state gs and returns card.
Decide(op, card, gs) ==
    /\ last.op = "init"
    /\ played' = <<card>>
    /\ game_state' = gs
    /\ pre' = hand
    /\ last' = [NoOp EXCEPT !.op = op]
    /\ UNCHANGED <<hand, raised, position, strategies, bid_value, bidding_suit, deck>>

PlayRandom ==
    \E gs \in GameStates : \E c \in play_random(hand, gs) : Decide("play_random", c, gs)

PlayHighest ==
    \E gs \in GameStates : Decide("play_highest", play_highest(hand, gs), gs)

PlayLowest ==
    \E gs \in GameStates : Decide("play_lowest", play_lowest(hand, gs), gs)

PlayHighestNoPoint ==
    \E gs \in GameStates :
        Decide("play_highest_no_point", play_highest_no_point(hand, gs), gs)

PlayHighestPoints ==
    \E gs \in GameStates :
        Decide("play_highest_points", play_highest_points(hand, gs), gs)

PlayJustHigher ==
    \E gs \in GameStates : Decide("play_just_higher", play_just_higher(hand, gs), gs)

PlayLowestNoPoint ==
    \E gs \in GameStates :
        Decide("play_lowest_no_point", play_lowest_no_point(hand, gs), gs)

PlaySinglePoint ==
    \E gs \in GameStates : Decide("play_single_point", play_single_point(hand, gs), gs)

PlaySavePoint ==
    \E gs \in GameStates : Decide("play_save_point", play_save_point(hand, gs), gs)

PlayOff ==
    \E gs \in GameStates : Decide("play_off", play_off(hand, gs), gs)

NextPlay ==
    \/ PlayRandom
    \/ PlayHighest
    \/ PlayLowest
    \/ PlayHighestNoPoint
    \/ PlayHighestPoints
    \/ PlayJustHigher
    \/ PlayLowestNoPoint
    \/ PlaySinglePoint
    \/ PlaySavePoint
    \/ PlayOff

PlaySpec == InitPlay /\ [][NextPlay]_vars

(***************************************************************************)
(* The dispatcher Player.play_card: the configured strategy is any         *)
(* callable; what it returns is nothing (None), a card of the hand, or a   *)
(* card that is not in the hand.                                           *)
(***************************************************************************)

\* Cards a configured strategy may return although the hand does not hold
\* them (PlayPool has neither).
ForeignCards == {Card("Queen", "Diamonds"), Card("Big", "Joker")}

\* What self.strategies['play_strategy'](...) may return: <<>> for None,
\* else <<card>>.
StrategyReturns(cards) ==
    {<<>>} \cup {<<cards[i]>> : i \in DOMAIN cards}
           \cup {<<c>> : c \in ForeignCards}

\* Player.play_card after the strategy returned: the cards it may return;
\* only a falsy result is replaced by play_random's choice.
play_card(cards, returned, gs) ==
    IF returned = <<>> THEN play_random(cards, gs) ELSE {returned[1]}

\* Player.play_card: strategy, fallback, removal from the hand, return.
PlayCard ==
    /\ last.op = "init"
    /\ \E gs \in GameStates : \E returned \in StrategyReturns(hand) :
         \E played_card \in play_card(hand, returned, gs) :
            /\ hand' = remove_cards(hand, played_card)
            /\ played' = <<played_card>>
            /\ game_state' = gs
            /\ pre' = hand
            /\ last' = [NoOp EXCEPT !.op = "play_card"]
    /\ UNCHANGED <<raised, position, strategies, bid_value, bidding_suit, deck>>

NextPlayCard == PlayCard

PlayCardSpec == InitPlay /\ [][NextPlayCard]_vars

(***************************************************************************)
(* One card: Card(name, suit) is called with any name and suit, and the    *)
(* card it yields then receives set_trump calls.  hand is <<>> until a     *)
(* card is constructed, then <<card>>.                                     *)
(***************************************************************************)

\* Deck.build: the 54 cards of a Pitch deck.
build ==
    {Card(rank, suit) :
        rank \in {"Ace", "2", "3", "4", "5", "6", "7", "8", "9", "10",
                  "Jack", "Queen", "King"},
        suit \in {"Hearts", "Diamonds", "Clubs", "Spades"}}
    \cup {Card(joker, "Joker") : joker \in {"Big", "Little"}}

\* Names a caller may pass that are no key of card_reference.
InvalidNames == {"", "0", "11", "Knight"}

\* Suits a caller may pass that are no key of suit_to_symbol.
InvalidSuits == {None, "Stars"}

\* The arguments Card() is called with.
NameArguments == ReferenceKeys \cup InvalidNames
SuitArguments == DOMAIN suit_to_symbol \cup InvalidSuits

\* The arguments set_trump is called with.
TrumpArguments == Suits \cup {None}

InitCard ==
    /\ hand = <<>>
    /\ pre = <<>>
    /\ last = NoOp
    /\ raised = FALSE
    /\ position = 0
    /\ strategies = DefaultStrategies
    /\ bid_value = 0
    /\ bidding_suit = None
    /\ played = <<>>
    /\ game_state = NoGameState
    /\ deck = NoDeck

\* A constructor that raises nothing: invalid arguments yield the 'No play'
\* placeholder card.
Construct_NoRaise ==
    /\ last.op = "init"
    /\ \E name \in NameArguments, suit \in SuitArguments :
          /\ raised' = FALSE
          /\ IF name \notin ReferenceKeys \/ suit \notin DOMAIN suit_to_symbol
             THEN hand' = <<Card("_", "Joker")>>
             ELSE hand' = <<Card(name, suit)>>
          /\ last' = [op |-> "Card", name |-> name, suit |-> suit]
    /\ pre' = hand
    /\ UNCHANGED <<position, strategies, bid_value, bidding_suit, played,
                   game_state, deck>>

\* Card.__init__: ValueError for a name that is no key of card_reference or a
\* suit that is no key of suit_to_symbol, else the new card.
Construct ==
    /\ last.op = "init"
    /\ \E name \in NameArguments, suit \in SuitArguments :
          /\ IF name \notin ReferenceKeys \/ suit \notin DOMAIN suit_to_symbol
             THEN raised' = TRUE /\ hand' = hand
             ELSE raised' = FALSE /\ hand' = <<Card(name, suit)>>
          /\ last' = [op |-> "Card", name |-> name, suit |-> suit]
    /\ pre' = hand
    /\ UNCHANGED <<position, strategies, bid_value, bidding_suit, played,
                   game_state, deck>>

\* card.set_trump(suit) on the constructed card.
SetTrump ==
    /\ hand # <<>>
    /\ \E suit \in TrumpArguments :
          /\ hand' = <<set_trump(hand[1], suit)>>
          /\ last' = [op |-> "set_trump", name |-> hand[1].name, suit |-> suit]
    /\ pre' = hand
    /\ UNCHANGED <<raised, position, strategies, bid_value, bidding_suit,
                   played, game_state, deck>>

NextCard == Construct \/ SetTrump

CardSpec == InitCard /\ [][NextCard]_vars

(***************************************************************************)
(* Two cards: hand is <<a, b>>, two Card objects, possibly of one name and *)
(* suit; each receives set_trump calls of its own, and the two are         *)
(* compared with <, > and ==.                                              *)
(***************************************************************************)

\* The cards the two objects are constructed as.
ComparePool ==
    {Card("Ace", "Spades"), Card("Jack", "Spades"), Card("Jack", "Clubs"),
     Card("10", "Hearts"), Card("Big", "Joker")}

InitCompare ==
    /\ hand \in {<<a, b>> : a \in ComparePool, b \in ComparePool}
    /\ pre = <<>>
    /\ last = NoOp
    /\ raised = FALSE
    /\ position = 0
    /\ strategies = DefaultStrategies
    /\ bid_value = 0
    /\ bidding_suit = None
    /\ played = <<>>
    /\ game_state = NoGameState
    /\ deck = NoDeck

\* set_trump(suit) on one of the two cards.
SetTrumpOfOne ==
    /\ \E i \in 1..2, suit \in TrumpArguments :
          /\ hand' = [hand EXCEPT ![i] = set_trump(hand[i], suit)]
          /\ last' = [op |-> "set_trump", name |-> hand[i].name, suit |-> suit]
    /\ pre' = hand
    /\ UNCHANGED <<raised, position, strategies, bid_value, bidding_suit,
                   played, game_state, deck>>

\* a < b, a > b and a == b are evaluated; the results are kept in last.
Compare ==
    /\ last.op # "compare"
    /\ last' = [op |-> "compare",
                lt |-> __lt__(hand[1], hand[2]),
                gt |-> __gt__(hand[1], hand[2]),
                eq |-> __eq__(hand[1], hand[2])]
    /\ pre' = hand
    /\ UNCHANGED <<hand, raised, position, strategies, bid_value, bidding_suit,
                   played, game_state, deck>>

NextCompare == SetTrumpOfOne \/ Compare

CompareSpec == InitCompare /\ [][NextCompare]_vars

(***************************************************************************)
(* A Hand and its operations: Hand(cards), then any sequence of add_cards, *)
(* remove_cards, replace_cards, index assignment, discard_non_trumps and   *)
(* discard_all.  Callers pass any list of cards.                           *)
(***************************************************************************)

\* Longest list of cards a caller passes to Hand(), add_cards, replace_cards.
MaxGiven == 2

\* Most cards a hand is grown to by add_cards.
MaxHeld == 3

\* The cards callers pass: a trump and a non-trump under Spades.
GivenPool == {Card("Ace", "Spades"), Card("5", "Diamonds")}

\* The lists callers pass; a list may name one card twice.
GivenLists == UNION {[1..n -> GivenPool] : n \in 0..MaxGiven}

\* The suit discard_non_trumps is called with.
DiscardSuits == {"Spades"}

\* Hand.__init__(cards)
InitHand ==
    /\ hand \in GivenLists
    /\ pre = <<>>
    /\ last = NoOp
    /\ raised = FALSE
    /\ position = 0
    /\ strategies = DefaultStrategies
    /\ bid_value = 0
    /\ bidding_suit = None
    /\ played = <<>>
    /\ game_state = NoGameState
    /\ deck = NoDeck

\* The hand becomes cards by operation op called with argument arg.
HandStep(op, arg, cards) ==
    /\ hand' = cards
    /\ pre' = hand
    /\ last' = [op |-> op, arg |-> arg]
    /\ UNCHANGED <<raised, position, strategies, bid_value, bidding_suit,
                   played, game_state, deck>>

AddCards ==
    \E new_cards \in GivenLists :
        /\ Len(add_cards(hand, new_cards)) <= MaxHeld
        /\ HandStep("add_cards", new_cards, add_cards(hand, new_cards))

RemoveCards ==
    \E card \in GivenPool :
        HandStep("remove_cards", <<card>>, remove_cards(hand, card))

ReplaceCards ==
    \E new_cards \in GivenLists :
        HandStep("replace_cards", new_cards, new_cards)

\* Hand.__setitem__, for an index of the list.
SetItem ==
    \E index \in DOMAIN hand, card \in GivenPool :
        HandStep("__setitem__", <<card>>, [hand EXCEPT ![index] = card])

\* Hand.discard_non_trumps, on a hand that is no misdeal.
HandDiscardNonTrumps ==
    \E suit \in DiscardSuits, is_bidder \in BOOLEAN :
        /\ ~discard_non_trumps(hand, suit, is_bidder).raised
        /\ HandStep("discard_non_trumps", <<>>,
                    discard_non_trumps(hand, suit, is_bidder).cards)

DiscardAll == HandStep("discard_all", <<>>, <<>>)

NextHand ==
    \/ AddCards
    \/ RemoveCards
    \/ ReplaceCards
    \/ SetItem
    \/ HandDiscardNonTrumps
    \/ DiscardAll

HandSpec == InitHand /\ [][NextHand]_vars

(***************************************************************************)
(* deck.py: a fresh deck of 54 cards, then any sequence of draw and deal   *)
(* calls that ask for no more cards than remain.  deck.hands and           *)
(* deck.drawn collect what the calls returned.                             *)
(***************************************************************************)

\* Deck.build: the list self.cards, in the order the cards are appended.
build_cards ==
    LET suits == <<"Hearts", "Diamonds", "Clubs", "Spades">>
        ranks == <<"Ace", "2", "3", "4", "5", "6", "7", "8", "9", "10",
                   "Jack", "Queen", "King">>
        jokers == <<"Big", "Little">>
    IN [i \in 1..54 |->
          IF i <= 52
          THEN Card(ranks[((i - 1) % 13) + 1], suits[((i - 1) \div 13) + 1])
          ELSE Card(jokers[i - 52], "Joker")]

\* A deal is followed only once the deck is down to this many cards.
MaxDealtFrom == 3

\* Largest nhands and ncards a deal is called with.
MaxNHands == 2
MaxNCards == 2

\* Most hands dealt over all deal calls.
MaxHandsDealt == 3

\* random.sample(cards, k): any k cards at distinct positions, in any order.
sample(cards, k) ==
    {[i \in 1..k |-> cards[p[i]]] :
        p \in {q \in [1..k -> DOMAIN cards] :
                  \A i, j \in 1..k : i # j => q[i] # q[j]}}

\* list.remove without effect: the card stays in the deck.
list_remove_Keeps(cards, card) == cards

\* list.remove(card): the first element equal to card (Card.__eq__) goes.
list_remove(cards, card) ==
    LET first == CHOOSE i \in DOMAIN cards :
                    /\ __eq__(cards[i], card)
                    /\ \A j \in 1..(i - 1) : ~__eq__(cards[j], card)
    IN SubSeq(cards, 1, first - 1) \o SubSeq(cards, first + 1, Len(cards))

\* for next_card in hand: self.cards.remove(next_card)
RECURSIVE remove_each(_, _)
remove_each(cards, dealt) ==
    IF dealt = <<>> THEN cards
    ELSE remove_each(list_remove(cards, dealt[1]), Tail(dealt))

\* Deck.deal: the outcomes of dealing nhands hands of ncards cards, each the
\* cards left in the deck and the hands returned, sorted by descending rank.
RECURSIVE deal(_, _, _)
deal(cards, nhands, ncards) ==
    IF nhands = 0 THEN {[cards |-> cards, hands |-> <<>>]}
    ELSE UNION
           {{[cards |-> rest.cards,
              hands |-> <<sort_by_rank(dealt)>> \o rest.hands] :
                 rest \in deal(remove_each(cards, dealt), nhands - 1, ncards)} :
              dealt \in IF ncards > 0 THEN sample(cards, ncards) ELSE {<<>>}}

\* Deck.__init__
InitDeck ==
    /\ deck = [cards |-> build_cards, hands |-> <<>>, drawn |-> <<>>]
    /\ hand = <<>>
    /\ pre = <<>>
    /\ last = NoOp
    /\ raised = FALSE
    /\ position = 0
    /\ strategies = DefaultStrategies
    /\ bid_value = 0
    /\ bidding_suit = None
    /\ played = <<>>
    /\ game_state = NoGameState

\* Deck.draw on a deck that is not empty: the last card is popped.
Draw ==
    /\ Len(deck.cards) > 0
    /\ deck' = [deck EXCEPT !.cards = SubSeq(deck.cards, 1, Len(deck.cards) - 1),
                            !.drawn = Append(deck.drawn, deck.cards[Len(deck.cards)])]
    /\ last' = [op |-> "draw"]
    /\ UNCHANGED <<hand, pre, raised, position, strategies, bid_value,
                   bidding_suit, played, game_state>>

\* Deck.deal(nhands, ncards), asking for no more cards than remain.
Deal ==
    /\ Len(deck.cards) <= MaxDealtFrom
    /\ \E nhands \in 1..MaxNHands, ncards \in 0..MaxNCards :
          /\ nhands * ncards <= Len(deck.cards)
          /\ Len(deck.hands) + nhands <= MaxHandsDealt
          /\ \E outcome \in deal(deck.cards, nhands, ncards) :
                deck' = [deck EXCEPT !.cards = outcome.cards,
                                     !.hands = deck.hands \o outcome.hands]
          /\ last' = [op |-> "deal", nhands |-> nhands, ncards |-> ncards]
    /\ UNCHANGED <<hand, pre, raised, position, strategies, bid_value,
                   bidding_suit, played, game_state>>

\* set_trump(suit) on every card of the freshly built deck.
SetTrumpOfDeck ==
    /\ last.op = "init"
    /\ \E suit \in TrumpArguments :
          /\ deck' = [deck EXCEPT !.cards = Hand_set_trump(deck.cards, suit)]
          /\ last' = [op |-> "set_trump", suit |-> suit]
    /\ UNCHANGED <<hand, pre, raised, position, strategies, bid_value,
                   bidding_suit, played, game_state>>

NextDeck == Draw \/ Deal \/ SetTrumpOfDeck

DeckSpec == InitDeck /\ [][NextDeck]_vars

(***************************************************************************)
(* Properties of the discard engine                                        *)
(***************************************************************************)

Discarded == last.op = "discard_non_trumps"

\* The cards of the hand the operation was called on, as sets, with the
\* operation's suit applied.
PreTrumps == {c \in {set_trump(pre[i], last.suit) : i \in DOMAIN pre} :
                  is_trump(c, last.suit)}
PrePointTrumps == {c \in PreTrumps : c.points > 0}
PreZeroTrumps == {c \in PreTrumps : c.points = 0}
HandSet == {hand[i] : i \in DOMAIN hand}

\* C1: discard_non_trumps raises the misdeal error exactly when the hand it
\* is called on holds more than 6 trump cards with points under the suit,
\* for bidder and non-bidder alike; otherwise it leaves at most 6 cards.
C1_MisdealExactly ==
    Discarded =>
        /\ raised <=> (Cardinality(PrePointTrumps) > 6)
        /\ ~raised => Len(hand) <= 6

C1_Witness ==
    /\ Discarded /\ raised /\ last.is_bidder
    /\ Cardinality(PrePointTrumps) = 7 /\ Len(pre) = 9

\* C2: for a non-bidder whose hand holds more than 6 trump cards, at most 6
\* of them with points, exactly 6 cards are left: every point-valued trump
\* card and the (6 - number of point cards) highest-ranked zero-point trump
\* cards, in descending order of rank.
C2_OverflowKeepsPointsAndTop ==
    (Discarded /\ ~last.is_bidder /\ Cardinality(PreTrumps) > 6
        /\ Cardinality(PrePointTrumps) <= 6) =>
        /\ Len(hand) = 6
        /\ HandSet = PrePointTrumps \cup
               {z \in PreZeroTrumps :
                   Cardinality({y \in PreZeroTrumps : y.rank > z.rank})
                       < 6 - Cardinality(PrePointTrumps)}
        /\ \A i, j \in DOMAIN hand : i < j => hand[i].rank > hand[j].rank

C2_Witness ==
    /\ Discarded /\ ~last.is_bidder /\ last.suit = "Spades"
    /\ Cardinality(PrePointTrumps) = 4 /\ Cardinality(PreZeroTrumps) = 3
    /\ Len(pre) = 9 /\ Len(hand) = 6

\* C3: the padding step never raises the hand above 6 cards.  Non-trump
\* cards are in the final hand only for the bidder and only when fewer than
\* 6 trump cards were kept; they are then the first saved non-trump cards,
\* in their original order, up to a hand of exactly 6 or until they run
\* out; a bidder who starts with at least 6 cards and has no misdeal ends
\* with exactly 6 cards.
C3_PaddingToSix ==
    Discarded =>
        LET saved == NonTrumpCards(Hand_set_trump(pre, last.suit), last.suit)
            padded == NonTrumpCards(hand, last.suit)
            t == Cardinality(PreTrumps)
        IN /\ (~last.is_bidder \/ t >= 6) => padded = <<>>
           /\ (last.is_bidder /\ t < 6) =>
                 /\ padded = SubSeq(saved, 1, Min(6 - t, Len(saved)))
                 /\ Len(hand) = Min(6, Len(pre))
           /\ (last.is_bidder /\ Len(pre) >= 6 /\ ~raised) => Len(hand) = 6

C3_Witness ==
    /\ Discarded /\ last.is_bidder /\ ~raised
    /\ Cardinality(PreTrumps) = 5 /\ Len(pre) = 7 /\ Len(hand) = 6
    /\ Len(NonTrumpCards(hand, last.suit)) = 1

(***************************************************************************)
(* Properties of the bidding strategy                                      *)
(***************************************************************************)

Bidded == last.op = "bid"

\* The winning strength of the hand the bid was made on.
BestValue == BestSuit(pre, strategies.bid_strength).bid_value

\* The current bidder is a non-falsy seat two seats away from the player.
PartnerBids ==
    /\ last.current_bidder \notin {NoBidder, 0}
    /\ last.current_bidder = (position + 2) % 4

\* The truncated value v of the claims: strength plus aggressiveness, minus
\* restraint when the partner holds the bid.
TruncatedValue ==
    int(BestValue + strategies.aggressiveness
          - (IF PartnerBids THEN strategies.restraint ELSE 0))

C5_BidInRange == Bidded => bid_value \in {0, 5, 6, 7}

\* C6: the bidding suit is the first suit, in the order Spades, Hearts,
\* Clubs, Diamonds, whose strength equals the maximum over the four suits.
C6_FirstStrongestSuit ==
    Bidded =>
        LET sb(i) == suit_bid(pre, SuitOrder[i], strategies.bid_strength)
            first == CHOOSE i \in DOMAIN SuitOrder :
                        /\ \A j \in DOMAIN SuitOrder : sb(i) >= sb(j)
                        /\ \A j \in 1..(i - 1) : sb(j) < sb(i)
        IN bidding_suit = SuitOrder[first]

\* Increments of aggressiveness the monotonicity is checked for (thousandths).
AggressivenessSteps == {1, 250, 1000, 3000}

\* C7: for a fixed hand, table, restraint, current bid and bidder, raising
\* aggressiveness by a positive amount never lowers the returned bid.
C7_MonotoneInAggressiveness ==
    Bidded =>
        \A d \in AggressivenessSteps :
            FinalBid(BestValue, position,
                     [strategies EXCEPT !.aggressiveness = @ + d],
                     last.current_bid, last.current_bidder) >= bid_value

C7_Witness ==
    /\ Bidded /\ bid_value = 5
    /\ FinalBid(BestValue, position, [strategies EXCEPT !.aggressiveness = @ + 1000],
                last.current_bid, last.current_bidder) = 6

\* C8: after the bid no tentative trump remains: every card has no trump
\* suit, its base symbol and rank and 0 points, and the hand holds the same
\* cards in the same order as before the call.
C8_NoTentativeTrumpLeft ==
    Bidded =>
        /\ Len(hand) = Len(pre)
        /\ \A i \in DOMAIN hand :
              /\ hand[i].name = pre[i].name /\ hand[i].suit = pre[i].suit
              /\ hand[i].trump_suit = None
              /\ hand[i].symbol = base_symbol(hand[i].name)
              /\ hand[i].rank = card_reference[base_symbol(hand[i].name)].rank
              /\ hand[i].points = 0

C8_Witness ==
    /\ Bidded /\ Len(hand) >= 3 /\ bidding_suit = "Spades"
    /\ \E i \in DOMAIN hand : hand[i].name = "Jack" /\ hand[i].symbol = "J"

\* C9: restraint is subtracted exactly when the current bidder is the
\* partner (a non-falsy seat two seats away), the value is then clamped at
\* 0; otherwise the bid does not depend on restraint.
C9_RestraintOnlyForPartner ==
    Bidded =>
        LET a == strategies.aggressiveness
            r == strategies.restraint
        IN /\ PartnerBids =>
                 /\ bid_value = BidRule(int(Max(0, BestValue + a - r)), last.current_bid)
                 /\ ComputedBid(BestValue, position, strategies, last.current_bidder) >= 0
           /\ ~PartnerBids =>
                 /\ bid_value = BidRule(int(BestValue + a), last.current_bid)
                 /\ \A r2 \in Restraint :
                       FinalBid(BestValue, position, [strategies EXCEPT !.restraint = r2],
                                last.current_bid, last.current_bidder) = bid_value

C9_Witness ==
    /\ Bidded /\ PartnerBids /\ strategies.restraint > 0 /\ bid_value = 0
    /\ FinalBid(BestValue, position, [strategies EXCEPT !.restraint = 0],
                last.current_bid, last.current_bidder) > 0

PlayOps ==
    {"play_random", "play_highest", "play_lowest", "play_highest_no_point",
     "play_highest_points", "play_just_higher", "play_lowest_no_point",
     "play_single_point", "play_save_point", "play_off"}

\* C10: each built-in play strategy, called with a non-empty hand and any
\* decision context (trump suit, trumps-led flag, trick possibly with gaps),
\* returns exactly one card, and that card is in the hand at the time of the
\* call.
C10_ReturnsCardOfHand ==
    last.op \in PlayOps =>
        /\ Len(played) = 1
        /\ \E i \in DOMAIN pre : pre[i] = played[1]

C10_Witness ==
    /\ last.op = "play_save_point"
    /\ Len(game_state.trick) = 3 /\ game_state.trick[1] = <<>>
    /\ game_state.trumps_led
    /\ Len(pre) >= 3 /\ Len(played) = 1 /\ played[1].rank = 2

\* The deterministic built-in strategies, by method name.
DeterministicStrategy(op, cards, gs) ==
    CASE op = "play_highest"          -> play_highest(cards, gs)
      [] op = "play_lowest"           -> play_lowest(cards, gs)
      [] op = "play_highest_no_point" -> play_highest_no_point(cards, gs)
      [] op = "play_highest_points"   -> play_highest_points(cards, gs)
      [] op = "play_just_higher"      -> play_just_higher(cards, gs)
      [] op = "play_lowest_no_point"  -> play_lowest_no_point(cards, gs)
      [] op = "play_single_point"     -> play_single_point(cards, gs)
      [] op = "play_save_point"       -> play_save_point(cards, gs)
      [] op = "play_off"              -> play_off(cards, gs)

PreSet == {pre[i] : i \in DOMAIN pre}

\* The cards of a set whose rank no card of the set is below.
LowestOf(S) == {c \in S : \A d \in S : c.rank <= d.rank}

\* Every card of the hand the strategy was called on carries the trump of
\* the decision context.
CarriesContextTrump == \A c \in PreSet : c.trump_suit = game_state.trumps

\* The trump cards of the hand the strategy was called on.
PreHandTrumps == {c \in PreSet : is_trump(c, game_state.trumps)}

\* C23: play_highest_points on a non-empty hand whose cards carry the
\* context's trump returns the 3 of trump if held; otherwise the
\* lowest-ranked one-point card that is neither the Ace nor the 2; otherwise
\* the 2 of trump if held; and when the only point card is the Ace or there
\* is none, the lowest trump card if trump was led and the hand holds trump,
\* else the lowest-ranked card of the hand.
C23_HighestPointsPriority ==
    (last.op = "play_highest_points" /\ CarriesContextTrump) =>
        LET threes == {c \in PreSet : c.points = 3}
            ones == {c \in PreSet : c.points = 1 /\ c.rank \notin {17, 2}}
            twos == {c \in PreSet : c.points = 1 /\ c.rank = 2}
            r == played[1]
        IN IF threes # {} THEN r \in threes /\ r.rank = 3
           ELSE IF ones # {} THEN r \in LowestOf(ones)
           ELSE IF twos # {} THEN r \in twos
           ELSE IF game_state.trumps_led /\ PreHandTrumps # {}
                THEN r \in LowestOf(PreHandTrumps)
           ELSE r \in LowestOf(PreSet)

C23_Witness ==
    /\ last.op = "play_highest_points" /\ CarriesContextTrump
    /\ game_state.trumps = "Spades" /\ game_state.trumps_led
    /\ Len(pre) >= 3
    /\ \E c \in PreSet : c.rank = 17 /\ c.points = 1
    /\ \A c \in PreSet : c.points = 1 => c.rank = 17
    /\ played[1].rank = 16

\* C24: play_just_higher returns the lowest-ranked card of the hand whose
\* rank is greater than the highest rank already played in the trick (0 when
\* nothing has been played; seats that have not played are ignored) and is
\* neither 2 nor 3; when no such card exists it returns the card
\* play_lowest_no_point returns for the same hand and context.
C24_JustHigherOrLowestNoPoint ==
    last.op = "play_just_higher" =>
        LET trick == game_state.trick
            ranks == {0} \cup {trick[i][1].rank :
                                  i \in {k \in DOMAIN trick : trick[k] # <<>>}}
            top == CHOOSE r \in ranks : \A q \in ranks : q <= r
            higher == {c \in PreSet : c.rank > top /\ c.rank \notin {2, 3}}
        IN IF higher # {} THEN played[1] \in LowestOf(higher)
           ELSE played[1] = play_lowest_no_point(pre, game_state)

C24_Witness ==
    /\ last.op = "play_just_higher"
    /\ Len(game_state.trick) = 3 /\ game_state.trick[1] = <<>>
    /\ game_state.trick[2][1].rank = 15
    /\ \E c \in PreSet : c.rank = 3
    /\ \E c \in PreSet : c.rank = 17
    /\ played[1].rank = 16

\* C25: every built-in play strategy follows trump: when the context says
\* trump was led and the hand, its cards carrying the context's trump, holds
\* at least one trump card, the card returned is a trump card.
C25_FollowsTrump ==
    (/\ last.op \in PlayOps
     /\ CarriesContextTrump
     /\ game_state.trumps_led
     /\ PreHandTrumps # {})
    => is_trump(played[1], game_state.trumps)

\* C30: when the hand holds no card worth points and its cards carry the
\* context's trump, play_single_point selects the card play_lowest_no_point
\* selects if trumps were led and the card play_off selects if they were not.
C30_SinglePointWithoutPoints ==
    (/\ last.op = "play_single_point"
     /\ CarriesContextTrump
     /\ \A c \in PreSet : c.points = 0)
    => played[1] = IF game_state.trumps_led
                   THEN play_lowest_no_point(pre, game_state)
                   ELSE play_off(pre, game_state)

C30_Witness ==
    /\ last.op = "play_single_point" /\ CarriesContextTrump
    /\ game_state.trumps = "Spades" /\ game_state.trumps_led
    /\ \A c \in PreSet : c.points = 0
    /\ Len(pre) = 2 /\ pre[1].rank = 0 /\ pre[2].rank = 16
    /\ played[1].rank = 16

(***************************************************************************)
(* Properties of the dispatcher play_card                                  *)
(***************************************************************************)

\* C11: play_card never returns a card that was not in the hand when it was
\* called: a strategy result that is nothing or is not in the hand is
\* replaced by a card play_random chooses from the hand.
C11_PlayCardReturnsHandCard ==
    last.op = "play_card" =>
        /\ Len(played) = 1
        /\ \E i \in DOMAIN pre : pre[i] = played[1]

\* C26: play_card removes exactly the card it returns: on a duplicate-free
\* hand a call shrinks the hand by one card, the card returned is the one
\* that is gone, and the other cards and their order are unchanged.
C26_RemovesTheCardReturned ==
    (last.op = "play_card"
     /\ \A i, j \in DOMAIN pre : i # j => ~__eq__(pre[i], pre[j]))
    => /\ Len(hand) = Len(pre) - 1
       /\ \E k \in DOMAIN pre :
             /\ pre[k] = played[1]
             /\ hand = SubSeq(pre, 1, k - 1) \o SubSeq(pre, k + 1, Len(pre))

(***************************************************************************)
(* Properties of the card model                                            *)
(***************************************************************************)

\* C13: after any finite sequence of set_trump calls on a card, its symbol,
\* rank, points and trump_suit are those one set_trump call with the last
\* argument gives a newly constructed card of the same name and suit; and
\* set_trump(None) restores the symbol, rank and points of construction.
C13_LastCallDecides ==
    last.op = "set_trump" =>
        /\ hand[1] = set_trump(Card(hand[1].name, hand[1].suit), last.suit)
        /\ last.suit = None =>
              /\ hand[1].symbol = Card(hand[1].name, hand[1].suit).symbol
              /\ hand[1].rank = Card(hand[1].name, hand[1].suit).rank
              /\ hand[1].points = Card(hand[1].name, hand[1].suit).points

C13_Witness ==
    /\ last.op = "set_trump" /\ last.suit = None
    /\ pre[1].symbol = "X" /\ pre[1].trump_suit = "Diamonds"
    /\ hand[1].name = "Jack" /\ hand[1].symbol = "J" /\ hand[1].rank = 14
    /\ hand[1].points = 0

\* The card is one of the 54 cards of the deck, whatever trump is set on it.
InDeck(card) == \E d \in build : d.name = card.name /\ d.suit = card.suit

\* C14: for every card of the 54-card deck, in every state reachable by
\* set_trump calls, is_trump(q) is true exactly when the card's suit is q, or
\* the card is a joker, or the card is a Jack whose suit has the colour of q.
C14_IsTrumpByIdentity ==
    (hand # <<>> /\ InDeck(hand[1])) =>
        \A q \in Suits :
            is_trump(hand[1], q) <=>
                \/ hand[1].suit = q
                \/ hand[1].name \in {"Big", "Little"}
                \/ hand[1].name = "Jack" /\ SameColour(hand[1].suit, q)

\* C15: after set_trump(s) for a suit s, every card of the 54-card deck has
\* the rank and points of the fixed tables: in suit s Ace 17, King 16,
\* Queen 15, Jack 14, Ten 10 and 9..2 by number; the same-colour Jack of the
\* other suit 13; Big Joker 12; Little Joker 11; every other card 0; points
\* are 1 for Ace, Jack, off-jack, the jokers, Ten and 2, 3 for the 3, and 0
\* for King, Queen, 9..4 and every card that is not trump.
C15_TrumpTables ==
    (last.op = "set_trump" /\ last.suit \in Suits /\ InDeck(hand[1])) =>
        LET c == hand[1]
            s == last.suit
            number == [n \in {"10", "9", "8", "7", "6", "5", "4", "3", "2"} |->
                         CASE n = "10" -> 10 [] n = "9" -> 9 [] n = "8" -> 8
                           [] n = "7" -> 7 [] n = "6" -> 6 [] n = "5" -> 5
                           [] n = "4" -> 4 [] n = "3" -> 3 [] n = "2" -> 2]
            off_jack == c.name = "Jack" /\ c.suit # s /\ SameColour(c.suit, s)
            rank == CASE c.suit = s /\ c.name = "Ace"   -> 17
                      [] c.suit = s /\ c.name = "King"  -> 16
                      [] c.suit = s /\ c.name = "Queen" -> 15
                      [] c.suit = s /\ c.name = "Jack"  -> 14
                      [] c.suit = s /\ c.name \in DOMAIN number -> number[c.name]
                      [] off_jack          -> 13
                      [] c.name = "Big"    -> 12
                      [] c.name = "Little" -> 11
                      [] OTHER             -> 0
            points == CASE rank \in {17, 14, 13, 12, 11, 10, 2} -> 1
                        [] rank = 3 -> 3
                        [] OTHER    -> 0
        IN /\ c.rank = rank
           /\ c.points = points
           /\ c.trump_suit = s

C15_Witness ==
    /\ last.op = "set_trump" /\ last.suit = "Clubs"
    /\ pre[1].trump_suit = "Hearts" /\ pre[1].rank = 0
    /\ hand[1].name = "Jack" /\ hand[1].suit = "Spades"
    /\ hand[1].rank = 13 /\ hand[1].points = 1

\* Card(name, suit) was called with a key of card_reference and one of the
\* five suits.
ValidConstruction ==
    /\ last.op = "Card"
    /\ last.name \in ReferenceKeys
    /\ last.suit \in {"Spades", "Hearts", "Clubs", "Diamonds", "Joker"}

\* C16 as stated: for every valid name and each of the five suits,
\* constructing a Card succeeds, and the new card's rank and points both
\* equal the fixed table's rank and points for its base symbol.
C16_RankAndPointsOfTable ==
    ValidConstruction =>
        /\ ~raised /\ Len(hand) = 1
        /\ hand[1].rank = card_reference[hand[1].symbol].rank
        /\ hand[1].points = card_reference[hand[1].symbol].points

\* C16 amended: for every valid name and each of the five suits, constructing
\* a Card succeeds; the new card's rank equals the fixed table's rank for its
\* base symbol, its points are 0 whatever the table's points, and no trump
\* is set on it.
C16_RankOfTablePointsZero ==
    ValidConstruction =>
        /\ ~raised /\ Len(hand) = 1
        /\ hand[1].symbol = base_symbol(hand[1].name)
        /\ hand[1].rank = card_reference[hand[1].symbol].rank
        /\ hand[1].points = 0
        /\ hand[1].trump_suit = None

C16_Witness ==
    /\ ValidConstruction /\ last.name = "A" /\ last.suit = "Diamonds"
    /\ ~raised /\ Len(hand) = 1
    /\ hand[1].name = "Ace" /\ hand[1].rank = 17 /\ hand[1].points = 0
    /\ card_reference[hand[1].symbol].points = 1

\* C17: only trump cards have points: in every state reachable by
\* construction and set_trump calls, a card's points are greater than 0 only
\* if a trump suit is set on it and the card is trump under that suit
\* (is_trump of that suit); with no trump set, or when the card is not trump,
\* its points are 0.
C17_OnlyTrumpsHavePoints ==
    hand # <<>> =>
        /\ hand[1].points > 0 =>
              /\ hand[1].trump_suit # None
              /\ is_trump(hand[1], hand[1].trump_suit)
        /\ hand[1].trump_suit = None => hand[1].points = 0
        /\ ~is_trump(hand[1], hand[1].trump_suit) => hand[1].points = 0

C17_Witness ==
    /\ last.op = "set_trump" /\ last.suit = "Hearts"
    /\ pre[1].trump_suit = "Spades" /\ pre[1].points = 0 /\ pre[1].rank = 0
    /\ hand[1].name = "3" /\ hand[1].suit = "Hearts" /\ hand[1].points = 3
    /\ is_trump(hand[1], hand[1].trump_suit)

\* C18 as stated: constructing a Card fails with an error, and yields no
\* card, whenever the name is not one of numeric ranks 2-10, Jack, Queen,
\* King, Ace, Big and Little and their abbreviations, or the suit is not one
\* of Spades, Hearts, Clubs, Diamonds, Joker.
C18_FailsOutsideEnumeration ==
    (/\ last.op = "Card"
     /\ \/ last.name \notin {"2", "3", "4", "5", "6", "7", "8", "9", "10",
                             "Jack", "Queen", "King", "Ace", "Big", "Little",
                             "1", "J", "Q", "K", "A", "B", "L"}
        \/ last.suit \notin {"Spades", "Hearts", "Clubs", "Diamonds", "Joker"})
    => (raised /\ hand = <<>>)

\* C18 amended: constructing a Card fails with an error, and yields no card,
\* whenever the name is not a key of the fixed table - numeric ranks 2-10,
\* Jack, Queen, King, Ace, Big, Little, their abbreviations, or one of the
\* marker symbols X, N and _ - or the suit is not one of Spades, Hearts,
\* Clubs, Diamonds, Joker.
C18_FailsOutsideTable ==
    (/\ last.op = "Card"
     /\ \/ last.name \notin {"2", "3", "4", "5", "6", "7", "8", "9", "10",
                             "Jack", "Queen", "King", "Ace", "Big", "Little",
                             "1", "J", "Q", "K", "A", "B", "L", "X", "N", "_"}
        \/ last.suit \notin {"Spades", "Hearts", "Clubs", "Diamonds", "Joker"})
    => (raised /\ hand = <<>>)

C18_Witness ==
    /\ last.op = "Card" /\ last.name = "X" /\ last.suit = "Stars"
    /\ raised /\ hand = <<>>

\* C19 as stated: a < b exactly when a.rank < b.rank, a > b exactly when
\* a.rank > b.rank, and a == b holds only when the two cards have the same
\* current rank and the same name and suit.
C19_EqualOnlyWithSameRank ==
    last.op = "compare" =>
        /\ last.lt <=> hand[1].rank < hand[2].rank
        /\ last.gt <=> hand[1].rank > hand[2].rank
        /\ last.eq => /\ hand[1].rank = hand[2].rank
                      /\ hand[1].name = hand[2].name
                      /\ hand[1].suit = hand[2].suit

\* C19 amended: a < b exactly when a.rank < b.rank, a > b exactly when
\* a.rank > b.rank, and a == b holds exactly when the two cards have the
\* same name and suit, whatever their current ranks.
C19_EqualByIdentity ==
    last.op = "compare" =>
        /\ last.lt <=> hand[1].rank < hand[2].rank
        /\ last.gt <=> hand[1].rank > hand[2].rank
        /\ last.eq <=> /\ hand[1].name = hand[2].name
                       /\ hand[1].suit = hand[2].suit

C19_Witness ==
    /\ last.op = "compare" /\ last.eq /\ last.gt /\ ~last.lt
    /\ hand[1].name = "Jack" /\ hand[1].rank = 14
    /\ hand[2].name = "Jack" /\ hand[2].rank = 13

(***************************************************************************)
(* Properties of the discard engine for a player who is not the bidder     *)
(***************************************************************************)

\* C20: after discard_non_trumps(suit, is_bidder=False) returns, every card
\* left in the hand is trump under suit (its suit is suit, or it is a joker,
\* or it is the Jack of the other suit of suit's colour), has
\* trump_suit = suit, and was in the hand before the call.
C20_OnlyTrumpsOfTheHandLeft ==
    (Discarded /\ ~last.is_bidder /\ ~raised) =>
        \A i \in DOMAIN hand :
            /\ is_trump(hand[i], last.suit)
            /\ \/ hand[i].suit = last.suit
               \/ hand[i].suit = "Joker"
               \/ hand[i].name = "Jack" /\ SameColour(hand[i].suit, last.suit)
            /\ hand[i].trump_suit = last.suit
            /\ \E j \in DOMAIN pre : /\ pre[j].name = hand[i].name
                                     /\ pre[j].suit = hand[i].suit

C20_Witness ==
    /\ Discarded /\ ~last.is_bidder /\ ~raised /\ last.suit = "Spades"
    /\ Len(pre) = 5 /\ Len(hand) = 3
    /\ \E i \in DOMAIN hand : hand[i].symbol = "X"
    /\ \E j \in DOMAIN pre : pre[j].name = "King" /\ pre[j].suit = "Hearts"

\* C28: discard_non_trumps never keeps more than max(0, 6 minus the number
\* of point-valued trump cards) zero-point trump cards: with 6 or more
\* point-valued trump cards no zero-point trump card is kept, also on the
\* path that ends in the misdeal error.
C28_ZeroPointTrumpsWithinTheSlots ==
    Discarded =>
        Cardinality({c \in HandSet : is_trump(c, last.suit) /\ c.points = 0})
            <= Max(0, 6 - Cardinality(PrePointTrumps))

(***************************************************************************)
(* Properties of the Hand                                                  *)
(***************************************************************************)

\* Two cards of the list have the same base symbol and suit.
HasDuplicate(cards) ==
    \E i, j \in DOMAIN cards : i < j /\ __eq__(cards[i], cards[j])

\* C21 as stated: a Hand never holds two cards with the same base symbol and
\* suit, in every state reachable by constructing a Hand and then applying
\* any sequence of add_cards, remove_cards, replace_cards, index assignment,
\* discard_non_trumps and discard_all.
C21_NeverADuplicate == ~HasDuplicate(hand)

\* C21 amended: add_cards, remove_cards, discard_non_trumps and discard_all
\* never bring a duplicate into a hand that had none, and add_cards never
\* appends a card whose base symbol and suit the hand already holds.
C21_NoDuplicateBroughtIn ==
    /\ (/\ last.op \in {"add_cards", "remove_cards", "discard_non_trumps",
                        "discard_all"}
        /\ ~HasDuplicate(pre))
       => ~HasDuplicate(hand)
    /\ last.op = "add_cards" =>
          \A i \in (Len(pre) + 1)..Len(hand) :
              \A j \in 1..(i - 1) : ~__eq__(hand[i], hand[j])

C21_Witness ==
    /\ last.op = "add_cards" /\ Len(last.arg) = 2
    /\ last.arg[1] = last.arg[2]
    /\ ~HasDuplicate(pre) /\ Len(pre) = 1 /\ pre[1].trump_suit = "Spades"
    /\ Len(hand) = 2 /\ hand[2] = last.arg[1]

(***************************************************************************)
(* Properties of the deck                                                  *)
(***************************************************************************)

\* The cards of a list of hands, one after the other.
RECURSIVE Flatten(_)
Flatten(hands) ==
    IF hands = <<>> THEN <<>> ELSE hands[1] \o Flatten(Tail(hands))

\* C22: starting from a fresh 54-card deck, after any sequence of deal and
\* draw calls that never asks for more cards than remain, the dealt hands and
\* the drawn cards are pairwise disjoint and duplicate-free, and together
\* with the cards left in the deck they are exactly the original 54 cards.
C22_DealtDrawnAndLeftAreTheDeck ==
    Len(deck.cards) + Len(deck.drawn) + Len(deck.hands) > 0 =>
        LET out == deck.drawn \o Flatten(deck.hands)
            all == deck.cards \o out
        IN /\ \A i, j \in DOMAIN out : i # j => ~__eq__(out[i], out[j])
           /\ Len(all) = 54
           /\ {[name |-> all[i].name, suit |-> all[i].suit] : i \in DOMAIN all}
                 = {[name |-> c.name, suit |-> c.suit] : c \in build}

C22_Witness ==
    /\ last.op = "draw"
    /\ Len(deck.drawn) = 52 /\ Len(deck.hands) = 2 /\ Len(deck.hands[1]) = 1
    /\ Len(deck.cards) = 0
    /\ deck.drawn[52].name \in {"Ace", "2", "3"}

\* The points of a list of cards, added up.
RECURSIVE SumPoints(_)
SumPoints(cards) ==
    IF cards = <<>> THEN 0 ELSE cards[1].points + SumPoints(Tail(cards))

\* C29: for each of the four suits s, set_trump(s) on all 54 cards of a
\* freshly built deck makes exactly 16 cards trump, their ranks are pairwise
\* distinct and are exactly the values 2..17, every other card has rank 0,
\* and the points of all 54 cards sum to 10.
C29_SixteenTrumpsTenPoints ==
    (last.op = "set_trump" /\ last.suit \in Suits /\ Len(deck.cards) = 54) =>
        LET trumps == {i \in 1..54 : is_trump(deck.cards[i], last.suit)}
        IN /\ Cardinality(trumps) = 16
           /\ \A i, j \in trumps : i # j => deck.cards[i].rank # deck.cards[j].rank
           /\ {deck.cards[i].rank : i \in trumps} = 2..17
           /\ \A i \in (1..54) \ trumps : deck.cards[i].rank = 0
           /\ SumPoints(deck.cards) = 10

C29_Witness ==
    /\ last.op = "set_trump" /\ last.suit = "Hearts" /\ Len(deck.cards) = 54
    /\ deck.cards[1].rank = 17 /\ deck.cards[24].rank = 13
    /\ deck.cards[53].rank = 12 /\ deck.cards[52].rank = 0

====
